---- MODULE Spec2Model ----
(***************************************************************************)
(* physdes-rs: the geometric algebra (generic.rs, interval.rs, point.rs)   *)
(* and the rectangle-merge engine (merge_obj.rs).                          *)
(*                                                                         *)
(* The library is a family of pure functions over value types, so the      *)
(* state machine is a call: the operands (self, other), their types (the   *)
(* trait impl Rust selects), the method called and what it returned.       *)
(* Init draws the operands; one action per method applies it.              *)
(***************************************************************************)
EXTENDS Integers, Sequences, FiniteSets, TLC

\* ------------------------------------------------------------------ bounds
\* Width of the signed scalar (i32 in the source, scaled down so that the
\* whole range is representable; the unsigned distance type has the same width).
Bits == 16
\* Scalars and interval bounds of the interval algebra are drawn from -MaxCoord..MaxCoord.
MaxCoord == 4
\* Interval bounds of MergeObj / Point operands with interval axes are drawn from 0..MaxMergeCoord.
MaxMergeCoord == 2
\* Coordinates of scalar points (before the 45-degree rotation) are drawn
\* from -MaxPointCoord..MaxPointCoord.
MaxPointCoord == 4
\* enlarge_with is called with alpha in 0..MaxAlpha.
MaxAlpha == 2

\* ------------------------------------------------------- machine arithmetic
I32_MIN == -(2 ^ (Bits - 1))
I32_MAX == (2 ^ (Bits - 1)) - 1
U32_MOD == 2 ^ Bits
U32_MAX == U32_MOD - 1

\* The value an out-of-range result takes when overflow checks are off
\* (two's complement wrap-around).
wrap_i32(x) == ((x - I32_MIN) % U32_MOD) + I32_MIN
wrap_u32(x) == x % U32_MOD

\* `a + b`, `a - b` on i32 (release build value), and whether a debug build panics.
i32_add(a, b) == wrap_i32(a + b)
i32_sub(a, b) == wrap_i32(a - b)
i32_add_overflows(a, b) == (a + b < I32_MIN) \/ (a + b > I32_MAX)
i32_sub_overflows(a, b) == (a - b < I32_MIN) \/ (a - b > I32_MAX)

\* `a * b` and `-a` on i32. The wrapped product is taken in two parts to keep
\* the intermediate values small.
i32_mul(a, b) == wrap_i32(wrap_i32(a * (b \div 256)) * 256 + a * (b % 256))
i32_mul_overflows(a, b) ==
    /\ a # 0 /\ b # 0
    /\ LET ma == IF a < 0 THEN -a ELSE a
           mb == IF b < 0 THEN -b ELSE b
       IN  IF (a < 0) = (b < 0) THEN ma > I32_MAX \div mb ELSE ma > (-I32_MIN) \div mb
i32_neg(a) == wrap_i32(-a)
i32_neg_overflows(a) == a = I32_MIN

\* `a + b`, `a - b` on u32.
u32_add(a, b) == wrap_u32(a + b)
u32_sub(a, b) == wrap_u32(a - b)
u32_add_overflows(a, b) == a + b > U32_MAX
u32_sub_overflows(a, b) == a - b < 0

\* `x as u32` for x: i32, and `u as i32` for u: u32 (bit-preserving casts, never panic).
as_u32(x) == wrap_u32(x)
as_i32(u) == wrap_i32(u)

\* i32::unsigned_abs
unsigned_abs(x) == IF x < 0 THEN -x ELSE x

\* std::cmp::max / Ord::max / Ord::min
cmp_max(a, b) == IF b >= a THEN b ELSE a
cmp_min(a, b) == IF b < a THEN b ELSE a

\* ------------------------------------------------------- generic.rs (i32)
i32_overlaps_i32(self, other) == self = other

i32_contains_i32(self, other) == self = other

i32_min_dist_with_i32(self, other) == unsigned_abs(i32_sub(self, other))
i32_min_dist_with_i32_panics(self, other) == i32_sub_overflows(self, other)

i32_displace_reversed(self, other) == i32_sub(other, self)
\* impl Displacement<i32> for i32: self - other
i32_displace(self, other) == i32_sub(self, other)
i32_displace_panics(self, other) == i32_sub_overflows(self, other)

Interval_new_normalized(lb, ub) ==
    [lb |-> IF lb <= ub THEN lb ELSE ub, ub |-> IF lb <= ub THEN ub ELSE lb]

\* ------------------------------------------------------------- interval.rs
\* Interval<T> { lb, ub, _marker }: the marker carries no value.
Interval_new(lb, ub) == [lb |-> lb, ub |-> ub]

is_invalid(self) == self.lb > self.ub

\* #[derive(PartialEq)]
Interval_eq(self, other) == self.lb = other.lb /\ self.ub = other.ub

\* impl Add<T> / Sub<T> / Mul<T> for Interval<T>: the scalar applied to both bounds
Interval_add(self, rhs) == Interval_new(i32_add(self.lb, rhs), i32_add(self.ub, rhs))
Interval_sub(self, rhs) == Interval_new(i32_sub(self.lb, rhs), i32_sub(self.ub, rhs))
Interval_mul(self, rhs) == Interval_new(i32_mul(self.lb, rhs), i32_mul(self.ub, rhs))

Interval_neg_unswapped(self) == Interval_new(i32_neg(self.lb), i32_neg(self.ub))
\* impl Neg for Interval<T>
Interval_neg(self) == Interval_new(i32_neg(self.ub), i32_neg(self.lb))

\* impl AddAssign<T> / SubAssign<T> / MulAssign<T> for Interval<T>
Interval_add_assign(self, rhs) ==
    [self EXCEPT !.lb = i32_add(self.lb, rhs), !.ub = i32_add(self.ub, rhs)]
Interval_sub_assign(self, rhs) ==
    [self EXCEPT !.lb = i32_sub(self.lb, rhs), !.ub = i32_sub(self.ub, rhs)]
Interval_mul_assign(self, rhs) ==
    [self EXCEPT !.lb = i32_mul(self.lb, rhs), !.ub = i32_mul(self.ub, rhs)]

\* Whether the i32 operation of `method` overflows on one of the bounds.
Interval_arith_panics(method, self, rhs) ==
    CASE method \in {"add", "add_assign"} ->
            i32_add_overflows(self.lb, rhs) \/ i32_add_overflows(self.ub, rhs)
      [] method \in {"sub", "sub_assign"} ->
            i32_sub_overflows(self.lb, rhs) \/ i32_sub_overflows(self.ub, rhs)
      [] method \in {"mul", "mul_assign"} ->
            i32_mul_overflows(self.lb, rhs) \/ i32_mul_overflows(self.ub, rhs)
      [] method = "neg" -> i32_neg_overflows(self.ub) \/ i32_neg_overflows(self.lb)

i32_enlarge_with(self, alpha) ==
    Interval_new(i32_sub(self, alpha), i32_add(self, alpha))
i32_enlarge_with_panics(self, alpha) ==
    i32_sub_overflows(self, alpha) \/ i32_add_overflows(self, alpha)

Interval_enlarge_with_shrinks(self, alpha) ==
    Interval_new(i32_add(self.lb, alpha), i32_sub(self.ub, alpha))

Interval_enlarge_with_lb_twice(self, alpha) ==
    Interval_new(i32_sub(self.lb, alpha), i32_add(self.lb, alpha))

Interval_enlarge_with(self, alpha) ==
    Interval_new(i32_sub(self.lb, alpha), i32_add(self.ub, alpha))
Interval_enlarge_with_panics(self, alpha) ==
    i32_sub_overflows(self.lb, alpha) \/ i32_add_overflows(self.ub, alpha)

\* `type Output` of the Enlarge impls: Interval<i32> for i32, Interval<T> for Interval<T>.
enlarge_with_Output(T) ==
    CASE T = "i32" -> "Interval"
      [] T = "Interval" -> "Interval"

\* Mutants of partial_cmp: ordered by the lower bounds alone; touching intervals ordered.
Interval_partial_cmp_by_lb(self, other) ==
    IF self.lb < other.lb THEN "Less"
    ELSE IF other.lb < self.lb THEN "Greater"
    ELSE "Equal"
Interval_partial_cmp_touching(self, other) ==
    IF self.ub <= other.lb THEN "Less"
    ELSE IF other.ub <= self.lb THEN "Greater"
    ELSE "Equal"

\* Mutant of partial_cmp: the Greater branch is left out.
Interval_partial_cmp_no_greater(self, other) ==
    IF self.ub < other.lb THEN "Less" ELSE "Equal"

Interval_partial_cmp(self, other) ==
    IF self.ub < other.lb THEN "Less"
    ELSE IF other.ub < self.lb THEN "Greater"
    ELSE "Equal"

\* The comparison operators PartialOrd derives from partial_cmp.
Interval_lt(self, other) == Interval_partial_cmp(self, other) = "Less"
Interval_le(self, other) == Interval_partial_cmp(self, other) \in {"Less", "Equal"}
Interval_gt(self, other) == Interval_partial_cmp(self, other) = "Greater"
Interval_ge(self, other) == Interval_partial_cmp(self, other) \in {"Greater", "Equal"}

\* Mutant of overlaps: the intervals taken as open, so that touching ones do not overlap.
Interval_overlaps_Interval_open(self, other) ==
    self.ub > other.lb /\ other.ub > self.lb

Interval_overlaps_Interval(self, other) ==
    self.ub >= other.lb /\ other.ub >= self.lb

Interval_overlaps_i32(self, other) == self.ub >= other /\ other >= self.lb

i32_overlaps_Interval_half_open(self, other) ==
    self > other.lb /\ other.ub >= self

i32_overlaps_Interval(self, other) == self >= other.lb /\ other.ub >= self

\* Mutant of contains: strict on the upper bound.
Interval_contains_Interval_strict(self, other) ==
    self.lb <= other.lb /\ other.ub < self.ub

Interval_contains_Interval(self, other) ==
    self.lb <= other.lb /\ other.ub <= self.ub

Interval_contains_i32(self, other) == self.lb <= other /\ other <= self.ub

i32_contains_Interval_degenerate(self, other) ==
    other.lb = self /\ other.ub = self

i32_contains_Interval(self, other) == FALSE

\* impl Displacement<Interval<T>> for Interval<T>
Interval_displace(self, other) ==
    Interval_new(i32_displace(self.lb, other.lb), i32_displace(self.ub, other.ub))
Interval_displace_panics(self, other) ==
    i32_displace_panics(self.lb, other.lb) \/ i32_displace_panics(self.ub, other.ub)

\* Mutants of min_dist_with: no distance to an interval on the left; the gap
\* measured from the wrong endpoint.
Interval_min_dist_with_Interval_one_sided(self, other) ==
    IF self.ub < other.lb THEN as_u32(i32_sub(other.lb, self.ub))
    ELSE 0
Interval_min_dist_with_Interval_wrong_end(self, other) ==
    IF self.ub < other.lb THEN as_u32(i32_sub(other.lb, self.ub))
    ELSE IF other.ub < self.lb THEN as_u32(i32_sub(self.lb, other.lb))
    ELSE 0

Interval_min_dist_with_Interval(self, other) ==
    IF self.ub < other.lb THEN as_u32(i32_sub(other.lb, self.ub))
    ELSE IF other.ub < self.lb THEN as_u32(i32_sub(self.lb, other.ub))
    ELSE 0
Interval_min_dist_with_Interval_panics(self, other) ==
    IF self.ub < other.lb THEN i32_sub_overflows(other.lb, self.ub)
    ELSE IF other.ub < self.lb THEN i32_sub_overflows(self.lb, other.ub)
    ELSE FALSE

Interval_min_dist_with_i32(self, other) ==
    IF self.ub < other THEN as_u32(i32_sub(other, self.ub))
    ELSE IF other < self.lb THEN as_u32(i32_sub(self.lb, other))
    ELSE 0
Interval_min_dist_with_i32_panics(self, other) ==
    IF self.ub < other THEN i32_sub_overflows(other, self.ub)
    ELSE IF other < self.lb THEN i32_sub_overflows(self.lb, other)
    ELSE FALSE

i32_min_dist_with_Interval(self, other) ==
    IF self < other.lb THEN as_u32(i32_sub(other.lb, self))
    ELSE IF other.ub < self THEN as_u32(i32_sub(self, other.ub))
    ELSE 0
i32_min_dist_with_Interval_panics(self, other) ==
    IF self < other.lb THEN i32_sub_overflows(other.lb, self)
    ELSE IF other.ub < self THEN i32_sub_overflows(self, other.ub)
    ELSE FALSE

\* impl Hull<i32> for i32
i32_hull_with_i32(self, other) ==
    IF self < other THEN Interval_new(self, other) ELSE Interval_new(other, self)

Interval_hull_with_Interval_min_twice(self, other) ==
    Interval_new(cmp_min(self.lb, other.lb), cmp_min(self.ub, other.ub))
\* impl Hull<Interval<T>> for Interval<T>
Interval_hull_with_Interval(self, other) ==
    Interval_new(cmp_min(self.lb, other.lb), cmp_max(self.ub, other.ub))

\* impl Hull<T> for Interval<T>
Interval_hull_with_i32(self, other) ==
    Interval_new(cmp_min(self.lb, other), cmp_max(self.ub, other))

\* impl Hull<Interval<T>> for T
i32_hull_with_Interval(self, other) == Interval_hull_with_i32(other, self)

i32_intersect_with_i32(self, other) ==
    Interval_new(cmp_max(self, other), cmp_min(self, other))

\* Mutant of intersect_with: the upper bound is taken from self alone.
Interval_intersect_with_Interval_self_ub(self, other) ==
    Interval_new(cmp_max(self.lb, other.lb), self.ub)

Interval_intersect_with_Interval(self, other) ==
    Interval_new(cmp_max(self.lb, other.lb), cmp_min(self.ub, other.ub))

Interval_intersect_with_i32_as_hull(self, other) ==
    Interval_new(cmp_min(self.lb, other), cmp_max(self.ub, other))

Interval_intersect_with_i32(self, other) ==
    Interval_new(cmp_max(self.lb, other), cmp_min(self.ub, other))

i32_intersect_with_Interval(self, other) == Interval_intersect_with_i32(other, self)

\* Trait dispatch over the coordinate types "i32" and "Interval": the impl
\* Rust selects for T: MinDist<U>, T: Intersect<U>.
min_dist_with(T, U, self, other) ==
    CASE T = "i32" /\ U = "i32" -> i32_min_dist_with_i32(self, other)
      [] T = "Interval" /\ U = "Interval" -> Interval_min_dist_with_Interval(self, other)
      [] T = "Interval" /\ U = "i32" -> Interval_min_dist_with_i32(self, other)
      [] T = "i32" /\ U = "Interval" -> i32_min_dist_with_Interval(self, other)
min_dist_with_panics(T, U, self, other) ==
    CASE T = "i32" /\ U = "i32" -> i32_min_dist_with_i32_panics(self, other)
      [] T = "Interval" /\ U = "Interval" -> Interval_min_dist_with_Interval_panics(self, other)
      [] T = "Interval" /\ U = "i32" -> Interval_min_dist_with_i32_panics(self, other)
      [] T = "i32" /\ U = "Interval" -> i32_min_dist_with_Interval_panics(self, other)

overlaps(T, U, self, other) ==
    CASE T = "i32" /\ U = "i32" -> i32_overlaps_i32(self, other)
      [] T = "Interval" /\ U = "Interval" -> Interval_overlaps_Interval(self, other)
      [] T = "Interval" /\ U = "i32" -> Interval_overlaps_i32(self, other)
      [] T = "i32" /\ U = "Interval" -> i32_overlaps_Interval(self, other)

contains(T, U, self, other) ==
    CASE T = "i32" /\ U = "i32" -> i32_contains_i32(self, other)
      [] T = "Interval" /\ U = "Interval" -> Interval_contains_Interval(self, other)
      [] T = "Interval" /\ U = "i32" -> Interval_contains_i32(self, other)
      [] T = "i32" /\ U = "Interval" -> i32_contains_Interval(self, other)

hull_with(T, U, self, other) ==
    CASE T = "i32" /\ U = "i32" -> i32_hull_with_i32(self, other)
      [] T = "Interval" /\ U = "Interval" -> Interval_hull_with_Interval(self, other)
      [] T = "Interval" /\ U = "i32" -> Interval_hull_with_i32(self, other)
      [] T = "i32" /\ U = "Interval" -> i32_hull_with_Interval(self, other)

intersect_with(T, U, self, other) ==
    CASE T = "i32" /\ U = "i32" -> i32_intersect_with_i32(self, other)
      [] T = "Interval" /\ U = "Interval" -> Interval_intersect_with_Interval(self, other)
      [] T = "Interval" /\ U = "i32" -> Interval_intersect_with_i32(self, other)
      [] T = "i32" /\ U = "Interval" -> i32_intersect_with_Interval(self, other)

\* ---------------------------------------------------------------- point.rs
Point_new(xcoord, ycoord) == [xcoord |-> xcoord, ycoord |-> ycoord]

\* The coordinate type of the point types the model instantiates.
PointTypes == {"Point<i32,i32>", "Point<Interval,Interval>"}
CoordTy(P) ==
    CASE P = "Point<i32,i32>" -> "i32"
      [] P = "Point<Interval,Interval>" -> "Interval"

Point_overlaps_either_axis(T1, T2, U1, U2, self, other) ==
    \/ overlaps(T1, U1, self.xcoord, other.xcoord)
    \/ overlaps(T2, U2, self.ycoord, other.ycoord)
\* impl Overlap<Point<U1, U2>> for Point<T1, T2>
Point_overlaps(T1, T2, U1, U2, self, other) ==
    /\ overlaps(T1, U1, self.xcoord, other.xcoord)
    /\ overlaps(T2, U2, self.ycoord, other.ycoord)

\* impl Contain<Point<U1, U2>> for Point<T1, T2>
Point_contains(T1, T2, U1, U2, self, other) ==
    /\ contains(T1, U1, self.xcoord, other.xcoord)
    /\ contains(T2, U2, self.ycoord, other.ycoord)

\* impl MinDist<Point<U1, U2>> for Point<T1, T2>: the sum of the axis distances (u32 `+`).
Point_min_dist_with(T1, T2, U1, U2, self, other) ==
    u32_add(min_dist_with(T1, U1, self.xcoord, other.xcoord),
            min_dist_with(T2, U2, self.ycoord, other.ycoord))
Point_min_dist_with_panics(T1, T2, U1, U2, self, other) ==
    \/ min_dist_with_panics(T1, U1, self.xcoord, other.xcoord)
    \/ min_dist_with_panics(T2, U2, self.ycoord, other.ycoord)
    \/ u32_add_overflows(min_dist_with(T1, U1, self.xcoord, other.xcoord),
                         min_dist_with(T2, U2, self.ycoord, other.ycoord))

\* impl Hull<Point<T1, T2>> for Point<T1, T2>
Point_hull_with(T1, T2, self, other) ==
    Point_new(hull_with(T1, T1, self.xcoord, other.xcoord),
              hull_with(T2, T2, self.ycoord, other.ycoord))

\* impl Intersect<Point<T1, T2>> for Point<T1, T2>
Point_intersect_with(T1, T2, self, other) ==
    Point_new(intersect_with(T1, T1, self.xcoord, other.xcoord),
              intersect_with(T2, T2, self.ycoord, other.ycoord))

\* vector2.rs: Vector2 { x_, y_ }
Vector2_new(x_, y_) == [x_ |-> x_, y_ |-> y_]

Point_displace_x_twice(self, other) ==
    Vector2_new(i32_displace(self.xcoord, other.xcoord),
                i32_displace(self.xcoord, other.xcoord))
\* impl Displacement<Point<T1, T2>> for Point<T1, T2>, T1 = T2 = i32
Point_displace(self, other) ==
    Vector2_new(i32_displace(self.xcoord, other.xcoord),
                i32_displace(self.ycoord, other.ycoord))
Point_displace_panics(self, other) ==
    \/ i32_displace_panics(self.xcoord, other.xcoord)
    \/ i32_displace_panics(self.ycoord, other.ycoord)

\* impl Sub for Point<T1, T2>: Point - Point is a Vector2
Point_sub_Point(self, other) ==
    Vector2_new(i32_sub(self.xcoord, other.xcoord), i32_sub(self.ycoord, other.ycoord))
Point_sub_Point_panics(self, other) ==
    \/ i32_sub_overflows(self.xcoord, other.xcoord)
    \/ i32_sub_overflows(self.ycoord, other.ycoord)

\* impl Add<Vector2<T1, T2>> for Point<T1, T2>
Point_add_Vector2(self, other) ==
    Point_new(i32_add(self.xcoord, other.x_), i32_add(self.ycoord, other.y_))
Point_add_Vector2_panics(self, other) ==
    \/ i32_add_overflows(self.xcoord, other.x_)
    \/ i32_add_overflows(self.ycoord, other.y_)

Point_sub_Vector2_x_twice(self, other) ==
    Point_new(i32_sub(self.xcoord, other.x_), i32_sub(self.ycoord, other.x_))
\* impl Sub<Vector2<T1, T2>> for Point<T1, T2>
Point_sub_Vector2(self, other) ==
    Point_new(i32_sub(self.xcoord, other.x_), i32_sub(self.ycoord, other.y_))
Point_sub_Vector2_panics(self, other) ==
    \/ i32_sub_overflows(self.xcoord, other.x_)
    \/ i32_sub_overflows(self.ycoord, other.y_)

\* impl AddAssign<Vector2<T1, T2>> for Point<T1, T2>: xcoord += x_; ycoord += y_
Point_add_assign(self, other) ==
    [self EXCEPT !.xcoord = i32_add(self.xcoord, other.x_),
                 !.ycoord = i32_add(self.ycoord, other.y_)]
Point_add_assign_panics(self, other) ==
    \/ i32_add_overflows(self.xcoord, other.x_)
    \/ i32_add_overflows(self.ycoord, other.y_)

\* impl SubAssign<Vector2<T1, T2>> for Point<T1, T2>: xcoord -= x_; ycoord -= y_
Point_sub_assign(self, other) ==
    [self EXCEPT !.xcoord = i32_sub(self.xcoord, other.x_),
                 !.ycoord = i32_sub(self.ycoord, other.y_)]
Point_sub_assign_panics(self, other) ==
    \/ i32_sub_overflows(self.xcoord, other.x_)
    \/ i32_sub_overflows(self.ycoord, other.y_)

\* ------------------------------------------------------------ merge_obj.rs
MergeObj_new(xcoord, ycoord) == [impl_ |-> Point_new(xcoord, ycoord)]

MergeObj_construct(xcoord, ycoord) ==
    [impl_ |-> Point_new(i32_add(xcoord, ycoord), i32_sub(xcoord, ycoord))]
MergeObj_construct_panics(xcoord, ycoord) ==
    i32_add_overflows(xcoord, ycoord) \/ i32_sub_overflows(xcoord, ycoord)

\* Mutant of min_dist_with: the sum of the axis distances, as Point has it.
MergeObj_min_dist_with_sum(T1, T2, self, other) ==
    u32_add(min_dist_with(T1, T1, self.impl_.xcoord, other.impl_.xcoord),
            min_dist_with(T2, T2, self.impl_.ycoord, other.impl_.ycoord))

MergeObj_min_dist_with(T1, T2, self, other) ==
    cmp_max(min_dist_with(T1, T1, self.impl_.xcoord, other.impl_.xcoord),
            min_dist_with(T2, T2, self.impl_.ycoord, other.impl_.ycoord))
MergeObj_min_dist_with_panics(T1, T2, self, other) ==
    \/ min_dist_with_panics(T1, T1, self.impl_.xcoord, other.impl_.xcoord)
    \/ min_dist_with_panics(T2, T2, self.impl_.ycoord, other.impl_.ycoord)

MergeObj_enlarge_with_x_only(self, alpha) ==
    [impl_ |-> Point_new(Interval_enlarge_with(self.impl_.xcoord, alpha), self.impl_.ycoord)]

\* enlarge_with, intersect_with and merge_with need T: Enlarge<i32, Output = T>,
\* which of the coordinate types only Interval<i32> satisfies.
MergeObj_enlarge_with(self, alpha) ==
    MergeObj_new(Interval_enlarge_with(self.impl_.xcoord, alpha),
                 Interval_enlarge_with(self.impl_.ycoord, alpha))
MergeObj_enlarge_with_panics(self, alpha) ==
    \/ Interval_enlarge_with_panics(self.impl_.xcoord, alpha)
    \/ Interval_enlarge_with_panics(self.impl_.ycoord, alpha)

MergeObj_intersect_with_hull(self, other) ==
    LET point == Point_hull_with("Interval", "Interval", self.impl_, other.impl_)
    IN  MergeObj_new(point.xcoord, point.ycoord)

MergeObj_intersect_with(self, other) ==
    LET point == Point_intersect_with("Interval", "Interval", self.impl_, other.impl_)
    IN  MergeObj_new(point.xcoord, point.ycoord)

\* Mutants of merge_with: half rounded up; the remainder given to self.
MergeObj_merge_with_locals_round_up(self, other) ==
    LET alpha == MergeObj_min_dist_with("Interval", "Interval", self, other)
        half == (alpha + 1) \div 2
        radius1 == as_i32(half)
        radius2 == as_i32(u32_sub(alpha, half))
    IN  [alpha |-> alpha, half |-> half, radius1 |-> radius1, radius2 |-> radius2,
         trr1 |-> MergeObj_enlarge_with(self, radius1),
         trr2 |-> MergeObj_enlarge_with(other, radius2)]
MergeObj_merge_with_locals_swapped(self, other) ==
    LET alpha == MergeObj_min_dist_with("Interval", "Interval", self, other)
        half == alpha \div 2
        radius1 == as_i32(u32_sub(alpha, half))
        radius2 == as_i32(half)
    IN  [alpha |-> alpha, half |-> half, radius1 |-> radius1, radius2 |-> radius2,
         trr1 |-> MergeObj_enlarge_with(self, radius1),
         trr2 |-> MergeObj_enlarge_with(other, radius2)]

MergeObj_merge_with_locals_half_twice(self, other) ==
    LET alpha == MergeObj_min_dist_with("Interval", "Interval", self, other)
        half == alpha \div 2
        radius1 == as_i32(half)
        radius2 == as_i32(half)
    IN  [alpha |-> alpha, half |-> half, radius1 |-> radius1, radius2 |-> radius2,
         trr1 |-> MergeObj_enlarge_with(self, radius1),
         trr2 |-> MergeObj_enlarge_with(other, radius2)]

\* The locals of merge_with; radius1 and radius2 are the arguments it passes to
\* enlarge_with (`half as i32`, `(alpha - half) as i32`).
MergeObj_merge_with_locals(self, other) ==
    LET alpha == MergeObj_min_dist_with("Interval", "Interval", self, other)
        half == alpha \div 2
        radius1 == as_i32(half)
        radius2 == as_i32(u32_sub(alpha, half))
    IN  [alpha |-> alpha, half |-> half, radius1 |-> radius1, radius2 |-> radius2,
         trr1 |-> MergeObj_enlarge_with(self, radius1),
         trr2 |-> MergeObj_enlarge_with(other, radius2)]

\* Mutant of merge_with: trr1 intersected with itself.
MergeObj_merge_with_trr1_twice(self, other) ==
    LET alpha == MergeObj_min_dist_with("Interval", "Interval", self, other)
        trr1 == MergeObj_enlarge_with(self, as_i32(alpha \div 2))
    IN  MergeObj_intersect_with(trr1, trr1)

MergeObj_merge_with(self, other) ==
    LET l == MergeObj_merge_with_locals(self, other)
    IN  MergeObj_intersect_with(l.trr1, l.trr2)
MergeObj_merge_with_panics(self, other) ==
    LET l == MergeObj_merge_with_locals(self, other)
    IN  \/ MergeObj_min_dist_with_panics("Interval", "Interval", self, other)
        \/ MergeObj_enlarge_with_panics(self, l.radius1)
        \/ MergeObj_enlarge_with_panics(other, l.radius2)

\* ------------------------------------------------------------ state machine
VARIABLES
    self,      \* the receiver of the call
    other,     \* its argument
    tys,       \* the types of the operands, which select the trait impl
    arg,       \* what else the call was given (enlarge_with's alpha, the
               \* arguments MergeObj::construct built the operands from, a
               \* third interval); "none" when there is nothing
    op,        \* the method called, "none" before the call
    out,       \* the value it returned, "panic" when it did not return
    locals,    \* the locals of the call, where the claims speak of them
    panicked   \* the call panicked (arithmetic overflow with overflow checks on)

vars == <<self, other, tys, arg, op, out, locals, panicked>>

Coord == (-MaxCoord) .. MaxCoord
MergeCoord == 0 .. MaxMergeCoord
PointCoord == (-MaxPointCoord) .. MaxPointCoord
Alphas == 0 .. MaxAlpha

Intervals == {Interval_new(lb, ub) : lb \in Coord, ub \in Coord}
MergeIntervals == {Interval_new(lb, ub) : lb \in MergeCoord, ub \in MergeCoord}
MergeObjs == {MergeObj_new(x, y) : x \in MergeIntervals, y \in MergeIntervals}
Points == {Point_new(x, y) : x \in PointCoord, y \in PointCoord}
Vectors == {Vector2_new(x, y) : x \in PointCoord, y \in PointCoord}
\* Scalars at and next to the ends of the i32 range, and around zero.
WideCoord == {I32_MIN, I32_MIN + 1, -1, 0, 1, I32_MAX - 1, I32_MAX}
WidePoints == {Point_new(x, y) : x \in WideCoord, y \in WideCoord}
WideVectors == {Vector2_new(x, y) : x \in WideCoord, y \in WideCoord}

\* The operands of the repository's tests and doc examples (interval.rs tests,
\* merge_obj.rs tests), added to the grids above.
TestIntervals ==
    {Interval_new(3, 5), Interval_new(5, 7), Interval_new(7, 8),
     Interval_new(4, 8), Interval_new(5, 6), Interval_new(4, 5), Interval_new(6, 8)}
TestScalars == {4, 6, 10, 5, 1, 2}
\* The radii of test_enlarge and test_enlarge_with_more_cases beyond the grid.
TestAlphas == {6, 100}
TestMergeObjs ==
    {MergeObj_new(Interval_new(200, 600), Interval_new(200, 600)),
     MergeObj_new(Interval_new(500, 900), Interval_new(500, 900)),
     MergeObj_new(Interval_new(700, 900), Interval_new(700, 900)),
     MergeObj_new(Interval_new(0, 100), Interval_new(0, 100)),
     MergeObj_new(Interval_new(100, 200), Interval_new(100, 200))}
\* A merge object off the grid, at odd distances from the ones above.
FarMergeObjs == {MergeObj_new(Interval_new(-3, -1), Interval_new(4, 9))}
TestPoints ==
    {Point_new(4, 5), Point_new(7, 9), Point_new(3, 5), Point_new(6, 4),
     Point_new(5, 7), Point_new(7, 8)}
\* point.rs test_add, test_sub, test_transform; lib.rs check_point.
TestTranslations ==
    {<<Point_new(0, 0), Vector2_new(5, 6)>>, <<Point_new(1, 0), Vector2_new(5, 6)>>,
     <<Point_new(3, 5), Vector2_new(5, 7)>>, <<Point_new(70, 23), Vector2_new(300, 45)>>}

\* Points and rectangles (points whose coordinates are intervals) on the small grid.
PointValues(P) ==
    CASE P = "Point<i32,i32>" -> {Point_new(x, y) : x \in MergeCoord, y \in MergeCoord}
      [] P = "Point<Interval,Interval>" ->
            {Point_new(x, y) : x \in MergeIntervals, y \in MergeIntervals}
\* point.rs test_point2: the rectangle and the points it is tested against.
TestPointValues(P) ==
    CASE P = "Point<i32,i32>" -> {Point_new(3, 4), Point_new(4, 5), Point_new(4, 6)}
      [] P = "Point<Interval,Interval>" -> {Point_new(Interval_new(3, 4), Interval_new(5, 6))}

Values(T) ==
    CASE T = "i32" -> Coord
      [] T = "Interval" -> Intervals
TestValues(T) ==
    CASE T = "i32" -> TestScalars
      [] T = "Interval" -> TestIntervals

NoCall ==
    /\ op = "none"
    /\ out = "none"
    /\ locals = "none"
    /\ panicked = FALSE

\* Two operands of the interval algebra: scalars and intervals in the four combinations.
InitAlgebra ==
    /\ \E T \in {"i32", "Interval"}, U \in {"i32", "Interval"} :
          /\ tys = <<T, U>>
          /\ \/ self \in Values(T) /\ other \in Values(U)
             \/ self \in TestValues(T) /\ other \in TestValues(U)
    /\ arg = "none"
    /\ NoCall

\* Three intervals, for the chains of comparisons.
InitChain ==
    /\ tys = <<"Interval", "Interval", "Interval">>
    /\ \/ self \in MergeIntervals /\ other \in MergeIntervals /\ arg \in MergeIntervals
       \/ self = Interval_new(3, 5) /\ other = Interval_new(5, 7) /\ arg = Interval_new(7, 8)
    /\ NoCall

\* Two points with scalar coordinates.
InitPoint ==
    /\ tys = <<"Point<i32,i32>", "Point<i32,i32>">>
    /\ \/ self \in Points /\ other \in Points
       \/ self \in TestPoints /\ other \in TestPoints
    /\ arg = "none"
    /\ NoCall

\* Two points of which one at least is a rectangle (its coordinates are intervals).
InitRect ==
    /\ \E P \in PointTypes, Q \in PointTypes :
          /\ <<P, Q>> # <<"Point<i32,i32>", "Point<i32,i32>">>
          /\ tys = <<P, Q>>
          /\ \/ self \in PointValues(P) /\ other \in PointValues(Q)
             \/ self \in TestPointValues(P) /\ other \in TestPointValues(Q)
    /\ arg = "none"
    /\ NoCall

\* Two point objects built by MergeObj::construct; arg keeps the (i, j) given to it.
InitConstruct ==
    /\ tys = <<"MergeObj<i32,i32>", "MergeObj<i32,i32>">>
    /\ \E p \in Points \cup TestPoints, q \in Points \cup TestPoints :
          /\ ~MergeObj_construct_panics(p.xcoord, p.ycoord)
          /\ ~MergeObj_construct_panics(q.xcoord, q.ycoord)
          /\ self = MergeObj_construct(p.xcoord, p.ycoord)
          /\ other = MergeObj_construct(q.xcoord, q.ycoord)
          /\ arg = <<p, q>>
    /\ NoCall

\* Two merge objects whose axes are intervals, built by MergeObj::new.
InitMerge ==
    /\ tys = <<"MergeObj<Interval,Interval>", "MergeObj<Interval,Interval>">>
    /\ \/ self \in MergeObjs /\ other \in MergeObjs
       \/ self \in TestMergeObjs \cup FarMergeObjs /\ other \in TestMergeObjs \cup FarMergeObjs
    /\ arg = "none"
    /\ NoCall

\* A point and a vector to translate it by.
InitTranslate ==
    /\ tys = <<"Point<i32,i32>", "Vector2<i32,i32>">>
    /\ \/ self \in Points /\ other \in Vectors
       \/ \E t \in TestTranslations : self = t[1] /\ other = t[2]
    /\ arg = "none"
    /\ NoCall

Init ==
    \/ InitAlgebra
    \/ InitChain
    \/ InitPoint
    \/ InitRect
    \/ InitConstruct
    \/ InitMerge
    \/ InitTranslate

\* The same operands taken from the whole range of i32.
InitTranslateWide ==
    /\ tys = <<"Point<i32,i32>", "Vector2<i32,i32>">>
    /\ self \in WidePoints /\ other \in WideVectors
    /\ arg = "none"
    /\ NoCall

WideValues(T) ==
    CASE T = "i32" -> WideCoord
      [] T = "Interval" -> {Interval_new(lb, ub) : lb \in WideCoord, ub \in WideCoord}

\* Scalars and intervals from the whole range of i32.
InitAlgebraWide ==
    /\ \E T \in {"i32", "Interval"}, U \in {"i32", "Interval"} :
          /\ tys = <<T, U>>
          /\ self \in WideValues(T) /\ other \in WideValues(U)
    /\ arg = "none"
    /\ NoCall

\* Merge objects whose axes have their bounds at the ends of the i32 range or at zero.
InitMergeWide ==
    /\ tys = <<"MergeObj<Interval,Interval>", "MergeObj<Interval,Interval>">>
    /\ \E a, b, c, d \in {Interval_new(lb, ub) : lb \in {I32_MIN, 0, I32_MAX},
                                                 ub \in {I32_MIN, 0, I32_MAX}} :
          /\ self = MergeObj_new(a, b)
          /\ other = MergeObj_new(c, d)
    /\ arg = "none"
    /\ NoCall

InitWide == Init \/ InitTranslateWide \/ InitAlgebraWide \/ InitMergeWide

\* The call returns `value`, or panics when `panics` holds and the build checks
\* overflow (debug profile); a build without the checks (release profile) wraps.
Return(name, value, panics, loc) ==
    /\ op = "none"
    /\ op' = name
    /\ \E overflow_checks \in BOOLEAN :
          /\ panicked' = (overflow_checks /\ panics)
          /\ out' = IF overflow_checks /\ panics THEN "panic" ELSE value
          /\ locals' = IF overflow_checks /\ panics THEN "none" ELSE loc
    /\ UNCHANGED <<self, other, tys>>

AlgebraTys == {<<T, U>> : T \in {"i32", "Interval"}, U \in {"i32", "Interval"}}
PointTys == {<<P, Q>> : P \in PointTypes, Q \in PointTypes}

Call_min_dist_with ==
    \/ /\ tys \in AlgebraTys
       /\ Return("min_dist_with",
                 min_dist_with(tys[1], tys[2], self, other),
                 min_dist_with_panics(tys[1], tys[2], self, other), "none")
       /\ UNCHANGED arg
    \/ /\ tys \in PointTys
       /\ LET T == CoordTy(tys[1])
              U == CoordTy(tys[2])
          IN  Return("min_dist_with",
                     Point_min_dist_with(T, T, U, U, self, other),
                     Point_min_dist_with_panics(T, T, U, U, self, other), "none")
       /\ UNCHANGED arg
    \/ /\ tys = <<"MergeObj<i32,i32>", "MergeObj<i32,i32>">>
       /\ Return("min_dist_with",
                 MergeObj_min_dist_with("i32", "i32", self, other),
                 MergeObj_min_dist_with_panics("i32", "i32", self, other), "none")
       /\ UNCHANGED arg
    \/ /\ tys = <<"MergeObj<Interval,Interval>", "MergeObj<Interval,Interval>">>
       /\ Return("min_dist_with",
                 MergeObj_min_dist_with("Interval", "Interval", self, other),
                 MergeObj_min_dist_with_panics("Interval", "Interval", self, other), "none")
       /\ UNCHANGED arg

Call_overlaps ==
    \/ /\ tys \in AlgebraTys
       /\ Return("overlaps", overlaps(tys[1], tys[2], self, other), FALSE, "none")
       /\ UNCHANGED arg
    \/ /\ tys \in PointTys
       /\ LET T == CoordTy(tys[1])
              U == CoordTy(tys[2])
          IN  Return("overlaps", Point_overlaps(T, T, U, U, self, other), FALSE, "none")
       /\ UNCHANGED arg

Call_contains ==
    \/ /\ tys \in AlgebraTys
       /\ Return("contains", contains(tys[1], tys[2], self, other), FALSE, "none")
       /\ UNCHANGED arg
    \/ /\ tys \in PointTys
       /\ LET T == CoordTy(tys[1])
              U == CoordTy(tys[2])
          IN  Return("contains", Point_contains(T, T, U, U, self, other), FALSE, "none")
       /\ UNCHANGED arg

Call_intersect_with ==
    \/ /\ tys \in AlgebraTys
       /\ Return("intersect_with", intersect_with(tys[1], tys[2], self, other), FALSE, "none")
       /\ UNCHANGED arg
    \/ /\ tys = <<"MergeObj<Interval,Interval>", "MergeObj<Interval,Interval>">>
       /\ Return("intersect_with", MergeObj_intersect_with(self, other), FALSE, "none")
       /\ UNCHANGED arg

Call_hull_with ==
    \/ /\ tys \in AlgebraTys
       /\ Return("hull_with", hull_with(tys[1], tys[2], self, other), FALSE, "none")
       /\ UNCHANGED arg
    \/ /\ tys \in PointTys /\ tys[1] = tys[2]
       /\ Return("hull_with",
                 Point_hull_with(CoordTy(tys[1]), CoordTy(tys[1]), self, other), FALSE, "none")
       /\ UNCHANGED arg

Call_displace ==
    \/ /\ tys = <<"i32", "i32">>
       /\ Return("displace", i32_displace(self, other), i32_displace_panics(self, other), "none")
       /\ UNCHANGED arg
    \/ /\ tys = <<"Interval", "Interval">>
       /\ Return("displace", Interval_displace(self, other),
                 Interval_displace_panics(self, other), "none")
       /\ UNCHANGED arg
    \/ /\ tys = <<"Point<i32,i32>", "Point<i32,i32>">>
       /\ Return("displace", Point_displace(self, other), Point_displace_panics(self, other),
                 "none")
       /\ UNCHANGED arg

Call_partial_cmp ==
    /\ tys = <<"Interval", "Interval">>
    /\ Return("partial_cmp", Interval_partial_cmp(self, other), FALSE, "none")
    /\ UNCHANGED arg

\* `self == other` (derived PartialEq).
Call_eq ==
    /\ tys = <<"Interval", "Interval">>
    /\ Return("eq", Interval_eq(self, other), FALSE, "none")
    /\ UNCHANGED arg

\* self.enlarge_with(alpha); the call has no second operand.
Call_enlarge_with ==
    \E alpha \in Alphas \cup TestAlphas :
        /\ arg' = alpha
        /\ \/ /\ tys[1] = "i32"
              /\ Return("enlarge_with", i32_enlarge_with(self, alpha),
                        i32_enlarge_with_panics(self, alpha), "none")
           \/ /\ tys[1] = "Interval" /\ Len(tys) = 2
              /\ Return("enlarge_with", Interval_enlarge_with(self, alpha),
                        Interval_enlarge_with_panics(self, alpha), "none")
           \/ /\ tys[1] = "MergeObj<Interval,Interval>"
              /\ Return("enlarge_with", MergeObj_enlarge_with(self, alpha),
                        MergeObj_enlarge_with_panics(self, alpha), "none")

Call_merge_with ==
    /\ tys = <<"MergeObj<Interval,Interval>", "MergeObj<Interval,Interval>">>
    /\ Return("merge_with", MergeObj_merge_with(self, other),
              MergeObj_merge_with_panics(self, other),
              MergeObj_merge_with_locals(self, other))
    /\ UNCHANGED arg

\* a.partial_cmp(b), b.partial_cmp(c), a.partial_cmp(c) on three intervals a, b, c.
Call_partial_cmp_chain ==
    /\ tys = <<"Interval", "Interval", "Interval">>
    /\ Return("partial_cmp_chain",
              <<Interval_partial_cmp(self, other), Interval_partial_cmp(other, arg),
                Interval_partial_cmp(self, arg)>>, FALSE, "none")
    /\ UNCHANGED arg

TypesTranslate == <<"Point<i32,i32>", "Vector2<i32,i32>">>

\* p + v
TypesIntervalScalar == <<"Interval", "i32">>

\* p + v, and a + k for an interval and a scalar
Call_add ==
    \/ /\ tys = TypesTranslate
       /\ Return("add", Point_add_Vector2(self, other), Point_add_Vector2_panics(self, other),
                 "none")
       /\ UNCHANGED arg
    \/ /\ tys = TypesIntervalScalar
       /\ Return("add", Interval_add(self, other), Interval_arith_panics("add", self, other),
                 "none")
       /\ UNCHANGED arg

\* p - v, p - q for two points, and a - k for an interval and a scalar
Call_sub ==
    \/ /\ tys = TypesIntervalScalar
       /\ Return("sub", Interval_sub(self, other), Interval_arith_panics("sub", self, other),
                 "none")
       /\ UNCHANGED arg
    \/ /\ tys = TypesTranslate
       /\ Return("sub", Point_sub_Vector2(self, other), Point_sub_Vector2_panics(self, other),
                 "none")
       /\ UNCHANGED arg
    \/ /\ tys = <<"Point<i32,i32>", "Point<i32,i32>">>
       /\ Return("sub", Point_sub_Point(self, other), Point_sub_Point_panics(self, other), "none")
       /\ UNCHANGED arg

\* a * k
Call_mul ==
    /\ tys = TypesIntervalScalar
    /\ Return("mul", Interval_mul(self, other), Interval_arith_panics("mul", self, other), "none")
    /\ UNCHANGED arg

\* -a
Call_neg ==
    /\ tys \in AlgebraTys /\ tys[1] = "Interval"
    /\ Return("neg", Interval_neg(self), Interval_arith_panics("neg", self, 0), "none")
    /\ UNCHANGED arg

\* The second call of a chain: it is applied to the value `out` of the first.
\* Both calls run in the same build: when the first one wrapped, overflow checks
\* are off.
Chain(from, name, value, panics, wrapped) ==
    /\ op = from /\ ~panicked
    /\ op' = name
    /\ \E overflow_checks \in (IF wrapped THEN {FALSE} ELSE BOOLEAN) :
          /\ panicked' = (overflow_checks /\ panics)
          /\ out' = IF overflow_checks /\ panics THEN "panic" ELSE value
    /\ UNCHANGED <<self, other, tys, arg, locals>>

\* (p + v) - v, and (a + k) - k
Call_add_sub ==
    \/ /\ tys = TypesTranslate
       /\ Chain("add", "add_sub", Point_sub_Vector2(out, other),
                Point_sub_Vector2_panics(out, other), Point_add_Vector2_panics(self, other))
    \/ /\ tys = TypesIntervalScalar
       /\ Chain("add", "add_sub", Interval_sub(out, other),
                Interval_arith_panics("sub", out, other),
                Interval_arith_panics("add", self, other))

\* (p - v) + v
Call_sub_add ==
    /\ tys = TypesTranslate
    /\ Chain("sub", "sub_add", Point_add_Vector2(out, other), Point_add_Vector2_panics(out, other),
             Point_sub_Vector2_panics(self, other))

\* An in-place update of the receiver; arg keeps the receiver as it was before
\* the first update, and a panic leaves the receiver as it was. When an earlier
\* update wrapped, overflow checks are off.
Assign(name, value, panics, wrapped) ==
    /\ ~panicked
    /\ op' = name
    /\ arg' = IF op = "none" THEN self ELSE arg
    /\ \E overflow_checks \in (IF wrapped THEN {FALSE} ELSE BOOLEAN) :
          /\ panicked' = (overflow_checks /\ panics)
          /\ self' = IF overflow_checks /\ panics THEN self ELSE value
          /\ out' = IF overflow_checks /\ panics THEN "panic" ELSE "none"
    /\ UNCHANGED <<other, tys, locals>>

\* p += v, and a += k
Call_add_assign ==
    \/ /\ tys = TypesTranslate
       /\ op = "none"
       /\ Assign("add_assign", Point_add_assign(self, other),
                 Point_add_assign_panics(self, other), FALSE)
    \/ /\ tys = TypesIntervalScalar
       /\ op = "none"
       /\ Assign("add_assign", Interval_add_assign(self, other),
                 Interval_arith_panics("add_assign", self, other), FALSE)

\* p -= v, after p += v; and a -= k
Call_sub_assign ==
    \/ /\ tys = TypesTranslate
       /\ op = "add_assign"
       /\ Assign("add_assign_sub_assign", Point_sub_assign(self, other),
                 Point_sub_assign_panics(self, other), Point_add_assign_panics(arg, other))
    \/ /\ tys = TypesIntervalScalar
       /\ op = "none"
       /\ Assign("sub_assign", Interval_sub_assign(self, other),
                 Interval_arith_panics("sub_assign", self, other), FALSE)

\* a *= k
Call_mul_assign ==
    /\ tys = TypesIntervalScalar
    /\ op = "none"
    /\ Assign("mul_assign", Interval_mul_assign(self, other),
              Interval_arith_panics("mul_assign", self, other), FALSE)

\* Interval::new(lb, ub), the two scalars being the bounds given to it
Call_new ==
    /\ tys = <<"i32", "i32">>
    /\ Return("new", Interval_new(self, other), FALSE, "none")
    /\ UNCHANGED arg

\* Interval::new(lb, ub).is_invalid()
Call_is_invalid ==
    /\ tys = <<"i32", "i32">>
    /\ Chain("new", "new_is_invalid", is_invalid(out), FALSE, FALSE)

\* let m = a.merge_with(&b); then a.min_dist_with(&m) and m.min_dist_with(&b)
Call_merged_min_dist_with ==
    /\ tys = <<"MergeObj<Interval,Interval>", "MergeObj<Interval,Interval>">>
    /\ Chain("merge_with", "merged_min_dist_with",
             <<MergeObj_min_dist_with("Interval", "Interval", self, out),
               MergeObj_min_dist_with("Interval", "Interval", out, other)>>,
             \/ MergeObj_min_dist_with_panics("Interval", "Interval", self, out)
             \/ MergeObj_min_dist_with_panics("Interval", "Interval", out, other),
             MergeObj_merge_with_panics(self, other))

\* a.enlarge_with(r).overlaps(&b)
Call_enlarged_overlaps ==
    /\ tys \in AlgebraTys /\ tys[1] = "Interval"
    /\ Chain("enlarge_with", "enlarged_overlaps", overlaps("Interval", tys[2], out, other),
             FALSE, Interval_enlarge_with_panics(self, arg))

Next ==
    \/ Call_new
    \/ Call_is_invalid
    \/ Call_add
    \/ Call_sub
    \/ Call_add_sub
    \/ Call_sub_add
    \/ Call_add_assign
    \/ Call_sub_assign
    \/ Call_mul
    \/ Call_neg
    \/ Call_mul_assign
    \/ Call_min_dist_with
    \/ Call_overlaps
    \/ Call_contains
    \/ Call_intersect_with
    \/ Call_hull_with
    \/ Call_displace
    \/ Call_partial_cmp
    \/ Call_eq
    \/ Call_enlarge_with
    \/ Call_enlarged_overlaps
    \/ Call_merge_with
    \/ Call_merged_min_dist_with
    \/ Call_partial_cmp_chain

Spec == Init /\ [][Next]_vars

\* The same program, its operands drawn from the whole range of i32 as well.
SpecWide == InitWide /\ [][Next]_vars

\* ------------------------------------------------------------------ claims
Abs(x) == IF x < 0 THEN -x ELSE x
Max(a, b) == IF a >= b THEN a ELSE b
Min(a, b) == IF a <= b THEN a ELSE b
IsValid(i) == i.lb <= i.ub

TypesII == <<"Interval", "Interval">>
TypesMergeInterval == <<"MergeObj<Interval,Interval>", "MergeObj<Interval,Interval>">>
TypesMergeScalar == <<"MergeObj<i32,i32>", "MergeObj<i32,i32>">>
TypesPointScalar == <<"Point<i32,i32>", "Point<i32,i32>">>

Returned(name, types) == op = name /\ tys = types /\ ~panicked

\* The rectangle ([xl, xu], [yl, yu]) in rotated space.
Box(xl, xu, yl, yu) == MergeObj_new(Interval_new(xl, xu), Interval_new(yl, yu))

\* C1: a.merge_with(b) is a enlarged by half = floor(alpha / 2) intersected with
\* b enlarged by alpha - half, alpha being a.min_dist_with(b): on each axis the
\* result is [max(a.lb - half, b.lb - (alpha - half)), min(a.ub + half,
\* b.ub + (alpha - half))]; ([200,600],[200,600]) merged with ([500,900],[500,900])
\* is ([500,600],[500,600]), ([0,100],[0,100]) with ([100,200],[100,200]) is
\* ([100,100],[100,100]).
C1_MergeIsEnlargeIntersect ==
    Returned("merge_with", TypesMergeInterval) =>
        LET alpha == MergeObj_min_dist_with("Interval", "Interval", self, other)
            half == CHOOSE h \in 0 .. alpha : 2 * h <= alpha /\ alpha < 2 * h + 2
            rest == alpha - half
            a == self.impl_
            b == other.impl_
        IN  /\ out = MergeObj_intersect_with(MergeObj_enlarge_with(self, half),
                                             MergeObj_enlarge_with(other, rest))
            /\ out = Box(Max(a.xcoord.lb - half, b.xcoord.lb - rest),
                         Min(a.xcoord.ub + half, b.xcoord.ub + rest),
                         Max(a.ycoord.lb - half, b.ycoord.lb - rest),
                         Min(a.ycoord.ub + half, b.ycoord.ub + rest))
            /\ (self = Box(200, 600, 200, 600) /\ other = Box(500, 900, 500, 900))
                   => out = Box(500, 600, 500, 600)
            /\ (self = Box(0, 100, 0, 100) /\ other = Box(100, 200, 100, 200))
                   => out = Box(100, 100, 100, 100)

C1_Witness ==
    /\ Returned("merge_with", TypesMergeInterval)
    /\ self = Box(0, 0, 1, 1)
    /\ other = Box(2, 2, 0, 1)
    /\ out = Box(1, 1, 0, 2)

\* C2: merge_with enlarges self by half = floor(alpha / 2) and other by
\* alpha - half; the two radii sum to alpha, differ by at most 1, and for odd
\* alpha the larger one is other's.
C2_RadiiSplit ==
    Returned("merge_with", TypesMergeInterval) =>
        /\ locals.alpha = MergeObj_min_dist_with("Interval", "Interval", self, other)
        /\ 2 * locals.radius1 <= locals.alpha
        /\ locals.alpha < 2 * locals.radius1 + 2
        /\ locals.radius1 + locals.radius2 = locals.alpha
        /\ locals.radius2 - locals.radius1 \in {0, 1}
        /\ (locals.alpha % 2 = 1) => (locals.radius2 = locals.radius1 + 1)
        /\ locals.trr1 = MergeObj_enlarge_with(self, locals.radius1)
        /\ locals.trr2 = MergeObj_enlarge_with(other, locals.radius2)

C2_Witness ==
    /\ Returned("merge_with", TypesMergeInterval)
    /\ locals.alpha = 201
    /\ locals.radius1 = 100
    /\ locals.radius2 = 101

\* C3: when a.min_dist_with(b) = 0, a.merge_with(b) is a.intersect_with(b).
C3_OverlappingMergeIsIntersection ==
    (/\ Returned("merge_with", TypesMergeInterval)
     /\ MergeObj_min_dist_with("Interval", "Interval", self, other) = 0)
        => out = Box(Max(self.impl_.xcoord.lb, other.impl_.xcoord.lb),
                     Min(self.impl_.xcoord.ub, other.impl_.xcoord.ub),
                     Max(self.impl_.ycoord.lb, other.impl_.ycoord.lb),
                     Min(self.impl_.ycoord.ub, other.impl_.ycoord.ub))

C3_Witness ==
    /\ Returned("merge_with", TypesMergeInterval)
    /\ self = Box(200, 600, 200, 600)
    /\ other = Box(500, 900, 500, 900)
    /\ locals.alpha = 0
    /\ out = Box(500, 600, 500, 600)

\* C4: MergeObj.min_dist_with is the maximum of the two axis distances; between
\* construct(i1, j1) and construct(i2, j2), which store (i + j, i - j), it is the
\* Manhattan distance |i1 - i2| + |j1 - j2| (7 from construct(4,5) to
\* construct(7,9), and from construct(0,0) to construct(3,4) and to construct(-3,-4)).
C4_MaxIsManhattan ==
    /\ (op = "none" /\ tys = TypesMergeScalar) =>
           /\ self = MergeObj_new(arg[1].xcoord + arg[1].ycoord, arg[1].xcoord - arg[1].ycoord)
           /\ other = MergeObj_new(arg[2].xcoord + arg[2].ycoord, arg[2].xcoord - arg[2].ycoord)
    /\ Returned("min_dist_with", TypesMergeScalar) =>
           /\ out = Max(Abs(self.impl_.xcoord - other.impl_.xcoord),
                        Abs(self.impl_.ycoord - other.impl_.ycoord))
           /\ out = Abs(arg[1].xcoord - arg[2].xcoord) + Abs(arg[1].ycoord - arg[2].ycoord)
           /\ (arg = <<Point_new(4, 5), Point_new(7, 9)>>) => out = 7
           /\ (arg = <<Point_new(0, 0), Point_new(3, 4)>>) => out = 7
           /\ (arg = <<Point_new(0, 0), Point_new(-3, -4)>>) => out = 7
    /\ Returned("min_dist_with", TypesMergeInterval) =>
           out = Max(Interval_min_dist_with_Interval(self.impl_.xcoord, other.impl_.xcoord),
                     Interval_min_dist_with_Interval(self.impl_.ycoord, other.impl_.ycoord))

C4_Witness ==
    /\ Returned("min_dist_with", TypesMergeScalar)
    /\ arg = <<Point_new(4, 5), Point_new(7, 9)>>
    /\ self = MergeObj_new(9, -1)
    /\ other = MergeObj_new(16, -2)
    /\ out = 7

\* C5 as stated: min_dist_with is symmetric, A.min_dist_with(B) =
\* B.min_dist_with(A), for all intervals, scalars against intervals in either
\* order, points and MergeObj.
C5_MinDistSymmetric_AllOperands ==
    (op = "min_dist_with" /\ ~panicked) =>
        /\ (tys \in AlgebraTys) => out = min_dist_with(tys[2], tys[1], other, self)
        /\ (tys = TypesPointScalar) =>
               out = Point_min_dist_with("i32", "i32", "i32", "i32", other, self)
        /\ (tys = TypesMergeScalar) =>
               out = MergeObj_min_dist_with("i32", "i32", other, self)
        /\ (tys = TypesMergeInterval) =>
               out = MergeObj_min_dist_with("Interval", "Interval", other, self)

\* Every interval among the operands (an operand, or an axis of one) has lb <= ub.
OperandsValid ==
    /\ (tys \in AlgebraTys /\ tys[1] = "Interval") => IsValid(self)
    /\ (tys \in AlgebraTys /\ tys[2] = "Interval") => IsValid(other)
    /\ (tys = TypesMergeInterval) =>
           /\ IsValid(self.impl_.xcoord) /\ IsValid(self.impl_.ycoord)
           /\ IsValid(other.impl_.xcoord) /\ IsValid(other.impl_.ycoord)

\* C5, amended: min_dist_with is symmetric, A.min_dist_with(B) =
\* B.min_dist_with(A), for valid intervals (lb <= ub), scalars against valid
\* intervals in either order, points of scalars, and MergeObj whose axes are
\* scalars or valid intervals.
C5_MinDistSymmetric_Valid ==
    (op = "min_dist_with" /\ ~panicked /\ OperandsValid) =>
        /\ (tys \in AlgebraTys) =>
               /\ out = min_dist_with(tys[2], tys[1], other, self)
               /\ ~min_dist_with_panics(tys[2], tys[1], other, self)
        /\ (tys = TypesPointScalar) =>
               out = Point_min_dist_with("i32", "i32", "i32", "i32", other, self)
        /\ (tys = TypesMergeScalar) =>
               out = MergeObj_min_dist_with("i32", "i32", other, self)
        /\ (tys = TypesMergeInterval) =>
               out = MergeObj_min_dist_with("Interval", "Interval", other, self)

C5_Witness ==
    /\ Returned("min_dist_with", TypesII)
    /\ self = Interval_new(7, 8)
    /\ other = Interval_new(3, 5)
    /\ out = 2
    /\ Interval_min_dist_with_Interval(other, self) = 2

\* C6 as stated: for all intervals A and B, A.intersect_with(B).is_invalid() iff
\* A.overlaps(B) is false.
C6_EmptyIffNoOverlap_AllIntervals ==
    Returned("intersect_with", TypesII) =>
        (is_invalid(out) <=> ~Interval_overlaps_Interval(self, other))

\* C6, amended: for all valid intervals A and B (lb <= ub),
\* A.intersect_with(B).is_invalid() iff A.overlaps(B) is false.
C6_EmptyIffNoOverlap_Valid ==
    (/\ Returned("intersect_with", TypesII)
     /\ IsValid(self)
     /\ IsValid(other))
        => (is_invalid(out) <=> ~Interval_overlaps_Interval(self, other))

C6_Witness ==
    /\ Returned("intersect_with", TypesII)
    /\ self = Interval_new(3, 5)
    /\ other = Interval_new(7, 8)
    /\ out = Interval_new(7, 5)
    /\ is_invalid(out)
    /\ ~Interval_overlaps_Interval(self, other)

\* The distance between the nearer endpoints of two intervals.
EndpointGap(a, b) ==
    Min(Min(Abs(a.lb - b.lb), Abs(a.lb - b.ub)), Min(Abs(a.ub - b.lb), Abs(a.ub - b.ub)))

\* C7: Interval min_dist_with is the unsigned gap: 0 when the intervals overlap
\* (touching at an endpoint included), else other.lb - self.ub when self is left
\* of other and self.lb - other.ub when it is right of it, the distance between
\* the nearer endpoints; [3,5] to [7,8] is 2, [3,5] to [5,7] is 0, [3,5] to 6 is 1.
C7_IntervalGap ==
    /\ Returned("min_dist_with", TypesII) =>
           /\ out >= 0
           /\ Interval_overlaps_Interval(self, other) => out = 0
           /\ (self.ub < other.lb) => out = other.lb - self.ub
           /\ (~(self.ub < other.lb) /\ other.ub < self.lb) => out = self.lb - other.ub
           /\ (IsValid(self) /\ IsValid(other)) =>
                  /\ (self.ub = other.lb \/ other.ub = self.lb) => out = 0
                  /\ ~Interval_overlaps_Interval(self, other) =>
                         (out > 0 /\ out = EndpointGap(self, other))
           /\ (self = Interval_new(3, 5) /\ other = Interval_new(7, 8)) => out = 2
           /\ (self = Interval_new(3, 5) /\ other = Interval_new(5, 7)) => out = 0
    /\ Returned("min_dist_with", <<"Interval", "i32">>) =>
           /\ out = (IF self.ub < other THEN other - self.ub
                     ELSE IF other < self.lb THEN self.lb - other ELSE 0)
           /\ (self = Interval_new(3, 5) /\ other = 6) => out = 1
    /\ Returned("min_dist_with", <<"i32", "Interval">>) =>
           /\ out = (IF self < other.lb THEN other.lb - self
                     ELSE IF other.ub < self THEN self - other.ub ELSE 0)
           /\ (self = 6 /\ other = Interval_new(3, 5)) => out = 1

C7_Witness ==
    /\ Returned("min_dist_with", TypesII)
    /\ self = Interval_new(3, 5)
    /\ other = Interval_new(7, 8)
    /\ out = 2

C10_Reflexive ==
    /\ (Returned("overlaps", TypesII) /\ self = other /\ IsValid(self)) => out = TRUE
    /\ (Returned("contains", TypesII) /\ self = other /\ IsValid(self)) => out = TRUE

C10_Witness ==
    /\ Returned("contains", TypesII)
    /\ self = Interval_new(4, 8)
    /\ other = Interval_new(4, 8)
    /\ out = TRUE


C12_EnlargeZeroIdentity_AllOperands ==
    (op = "enlarge_with" /\ tys \in AlgebraTys /\ ~panicked /\ arg = 0) =>
        /\ enlarge_with_Output(tys[1]) = tys[1]
        /\ out = self

\* C12 (amended): A.enlarge_with(0) == A for every interval A, valid or not;
\* for a scalar x, x.enlarge_with(0) is the interval [x, x], not the scalar.
C12_EnlargeZero ==
    (op = "enlarge_with" /\ tys \in AlgebraTys /\ ~panicked /\ arg = 0) =>
        /\ tys[1] = "Interval" => out = self
        /\ tys[1] = "i32" => out = Interval_new(self, self)
        /\ enlarge_with_Output(tys[1]) = "Interval"
C12_Witness ==
    /\ op = "enlarge_with" /\ tys[1] = "Interval" /\ Len(tys) = 2 /\ arg = 0
    /\ self = Interval_new(3, 5)
    /\ out = Interval_new(3, 5)


C14_Contains ==
    /\ (op = "contains" /\ tys = TypesII) =>
          (out <=> (self.lb <= other.lb /\ other.ub <= self.ub))
    /\ (op = "contains" /\ tys = <<"Interval", "i32">>) =>
          (out <=> (self.lb <= other /\ other <= self.ub))
    /\ (op = "contains" /\ tys = <<"i32", "Interval">>) => out = FALSE
\* The scalar 4 does not contain [4, 4].
C14_Witness ==
    /\ op = "contains" /\ tys = <<"i32", "Interval">>
    /\ self = 4 /\ other = Interval_new(4, 4)
    /\ out = FALSE


TypesRectPoint == <<"Point<Interval,Interval>", "Point<i32,i32>">>
\* The distance from a scalar x to a valid interval i on one axis.
AxisGap(i, x) == IF x < i.lb THEN i.lb - x ELSE IF x > i.ub THEN x - i.ub ELSE 0

C16_HullSmallestCover ==
    /\ (op = "hull_with" /\ tys = TypesII /\ IsValid(self) /\ IsValid(other)) =>
          /\ out = Interval_new(Min(self.lb, other.lb), Max(self.ub, other.ub))
          /\ Interval_contains_Interval(out, self)
          /\ Interval_contains_Interval(out, other)
          /\ \A l, u \in (Min(self.lb, other.lb) - 1) .. (Max(self.ub, other.ub) + 1) :
                (/\ Interval_contains_Interval(Interval_new(l, u), self)
                 /\ Interval_contains_Interval(Interval_new(l, u), other)) =>
                    Interval_contains_Interval(Interval_new(l, u), out)
    /\ (op = "hull_with" /\ tys = <<"i32", "i32">>) =>
          out = Interval_new(Min(self, other), Max(self, other))
    /\ (op = "hull_with" /\ tys = TypesPointScalar) =>
          out = Point_new(Interval_new(Min(self.xcoord, other.xcoord),
                                       Max(self.xcoord, other.xcoord)),
                          Interval_new(Min(self.ycoord, other.ycoord),
                                       Max(self.ycoord, other.ycoord)))
    /\ (op = "hull_with" /\ tys = <<"Point<Interval,Interval>", "Point<Interval,Interval>">>) =>
          /\ out.xcoord = Interval_hull_with_Interval(self.xcoord, other.xcoord)
          /\ out.ycoord = Interval_hull_with_Interval(self.ycoord, other.ycoord)
    /\ (op = "hull_with" /\ tys = TypesII
            /\ self = Interval_new(3, 5) /\ other = Interval_new(5, 7)) =>
          out = Interval_new(3, 7)
    /\ (op = "hull_with" /\ tys = TypesPointScalar
            /\ self = Point_new(3, 5) /\ other = Point_new(5, 7)) =>
          out = Point_new(Interval_new(3, 5), Interval_new(5, 7))
C16_Witness ==
    /\ op = "hull_with" /\ tys = TypesII
    /\ self = Interval_new(3, 5) /\ other = Interval_new(7, 8)
    /\ out = Interval_new(3, 8)


\* C17 (as stated): displace follows the `other - self` convention: for scalars
\* a.displace(b) is b - a, for intervals each bound is displaced in that same
\* direction, for points the result is the Vector2 of the axis displacements.
C17_DisplaceOtherMinusSelf ==
    /\ Returned("displace", <<"i32", "i32">>) => out = other - self
    /\ Returned("displace", TypesII) =>
          out = Interval_new(other.lb - self.lb, other.ub - self.ub)
    /\ Returned("displace", TypesPointScalar) =>
          out = Vector2_new(other.xcoord - self.xcoord, other.ycoord - self.ycoord)

\* C17 (amended): displace follows the `self - other` convention: for scalars
\* a.displace(b) is a - b, for intervals each bound is displaced independently
\* in that same direction (lb with lb, ub with ub), and for points the result
\* is the Vector2 of the per-axis displacements.
C17_DisplaceSelfMinusOther ==
    /\ Returned("displace", <<"i32", "i32">>) => out = self - other
    /\ Returned("displace", TypesII) =>
          /\ out.lb = i32_displace(self.lb, other.lb)
          /\ out.ub = i32_displace(self.ub, other.ub)
          /\ out.lb = self.lb - other.lb
    /\ Returned("displace", TypesPointScalar) =>
          /\ out.x_ = i32_displace(self.xcoord, other.xcoord)
          /\ out.y_ = i32_displace(self.ycoord, other.ycoord)
          /\ out.x_ = self.xcoord - other.xcoord
C17_Witness ==
    /\ Returned("displace", <<"i32", "i32">>)
    /\ self = 10 /\ other = 5
    /\ out = 5

\* C18: a.displace(b) for integers is a - b (10.displace(5) == 5,
\* 5.displace(10) == -5, 1.displace(2) == -1); for intervals A.displace(B) ==
\* [A.lb - B.lb, A.ub - B.ub] ([3,5].displace([7,8]) == [-4,-3]); for points
\* P.displace(Q) == Vector2(P.x - Q.x, P.y - Q.y), which is the point
\* difference P - Q.
C18_DisplaceAsTested ==
    /\ Returned("displace", <<"i32", "i32">>) =>
          /\ out = self - other
          /\ (self = 10 /\ other = 5) => out = 5
          /\ (self = 5 /\ other = 10) => out = -5
          /\ (self = 1 /\ other = 2) => out = -1
    /\ Returned("displace", TypesII) =>
          /\ out = Interval_new(self.lb - other.lb, self.ub - other.ub)
          /\ (self = Interval_new(3, 5) /\ other = Interval_new(7, 8)) =>
                out = Interval_new(-4, -3)
    /\ Returned("displace", TypesPointScalar) =>
          /\ out = Vector2_new(self.xcoord - other.xcoord, self.ycoord - other.ycoord)
          /\ out = Point_sub_Point(self, other)
    /\ Returned("sub", TypesPointScalar) => out = Point_displace(self, other)
C18_Witness ==
    /\ Returned("displace", TypesPointScalar)
    /\ self = Point_new(3, 5) /\ other = Point_new(7, 8)
    /\ out = Vector2_new(-4, -3)


\* A scalar as the interval [x, x], and the distance between two valid
\* intervals as a mathematical integer.
AsInterval(T, v) == IF T = "i32" THEN Interval_new(v, v) ELSE v
ExactGap(a, b) ==
    IF a.ub < b.lb THEN b.lb - a.ub ELSE IF b.ub < a.lb THEN a.lb - b.ub ELSE 0

\* C19: distance computation is overflow-safe: for all values of the signed
\* scalar type, operands at opposite ends of the range included, scalar and
\* interval min_dist_with return the exact mathematical gap as an unsigned
\* value; the subtraction neither overflows (panics) nor wraps.
C19_DistanceOverflowSafe ==
    (op = "min_dist_with" /\ tys \in AlgebraTys /\ OperandsValid) =>
        /\ ~panicked
        /\ out = ExactGap(AsInterval(tys[1], self), AsInterval(tys[2], other))


\* C20: none of the four MergeObj operations (min_dist_with, enlarge_with,
\* intersect_with, merge_with) fails: each returns a value for every pair of
\* inputs; an empty intersection is a normal value, a MergeObj whose interval is
\* invalid (lb > ub) on exactly the axes where the (valid) operands do not
\* overlap; ([200,600],[200,600]) intersected with ([700,900],[700,900]) is
\* invalid on both axes.
C20_MergeObjOpsTotal ==
    (tys = TypesMergeInterval
        /\ op \in {"min_dist_with", "enlarge_with", "intersect_with", "merge_with"}) =>
        /\ ~panicked
        /\ (op = "intersect_with" /\ OperandsValid) =>
              /\ is_invalid(out.impl_.xcoord) <=>
                    ~Interval_overlaps_Interval(self.impl_.xcoord, other.impl_.xcoord)
              /\ is_invalid(out.impl_.ycoord) <=>
                    ~Interval_overlaps_Interval(self.impl_.ycoord, other.impl_.ycoord)
        /\ (op = "intersect_with" /\ self = Box(200, 600, 200, 600)
                /\ other = Box(700, 900, 700, 900)) =>
              is_invalid(out.impl_.xcoord) /\ is_invalid(out.impl_.ycoord)


\* C21: Interval::new(lb, ub) does not normalise: the interval has exactly the
\* given lb and ub, also when lb > ub; is_invalid() is true iff lb > ub, so a
\* degenerate interval with lb == ub is valid.
C21_NewKeepsBounds ==
    /\ (op = "new" /\ tys = <<"i32", "i32">>) => (out.lb = self /\ out.ub = other)
    /\ (op = "new_is_invalid" /\ tys = <<"i32", "i32">>) =>
          /\ out <=> (self > other)
          /\ self = other => out = FALSE
\* Interval::new(4, 1) keeps lb = 4 > ub = 1.
C21_Witness ==
    /\ op = "new" /\ tys = <<"i32", "i32">>
    /\ self = 4 /\ other = 1
    /\ out.lb = 4 /\ out.ub = 1 /\ is_invalid(out)


C23_IntervalScalarArithmetic ==
    /\ Returned("add", TypesIntervalScalar) =>
          out = Interval_new(self.lb + other, self.ub + other)
    /\ Returned("sub", TypesIntervalScalar) =>
          out = Interval_new(self.lb - other, self.ub - other)
    /\ Returned("mul", TypesIntervalScalar) =>
          out = Interval_new(self.lb * other, self.ub * other)
    /\ (op = "neg" /\ tys \in AlgebraTys /\ ~panicked) =>
          out = Interval_new(-self.ub, -self.lb)
    /\ Returned("add_assign", TypesIntervalScalar) =>
          self = Interval_new(arg.lb + other, arg.ub + other)
    /\ Returned("sub_assign", TypesIntervalScalar) =>
          self = Interval_new(arg.lb - other, arg.ub - other)
    /\ Returned("mul_assign", TypesIntervalScalar) =>
          self = Interval_new(arg.lb * other, arg.ub * other)
    /\ Returned("add_sub", TypesIntervalScalar) => out = self
C23_Witness ==
    /\ Returned("neg", TypesIntervalScalar)
    /\ self = Interval_new(3, 5)
    /\ out = Interval_new(-5, -3)


\* C24: merge_with never returns an empty region for valid inputs: for any two
\* MergeObj a, b whose x and y axes are valid intervals, and with no arithmetic
\* overflow, both axes of a.merge_with(b) are valid intervals, even though
\* intersect_with alone may return invalid axes.
C24_MergeNeverEmpty ==
    (Returned("merge_with", TypesMergeInterval) /\ OperandsValid
        /\ ~MergeObj_merge_with_panics(self, other)) =>
        IsValid(out.impl_.xcoord) /\ IsValid(out.impl_.ycoord)
\* The operands are apart on both axes: their plain intersection is empty, the
\* merged region is not.
C24_Witness ==
    /\ Returned("merge_with", TypesMergeInterval)
    /\ self = Box(200, 600, 200, 600) /\ other = Box(700, 900, 700, 900)
    /\ is_invalid(MergeObj_intersect_with(self, other).impl_.xcoord)
    /\ IsValid(out.impl_.xcoord) /\ IsValid(out.impl_.ycoord)


\* C25: the merged region splits the separation exactly: for MergeObj a, b with
\* valid interval axes, alpha = a.min_dist_with(b), half = alpha / 2 and
\* m = a.merge_with(b): a.min_dist_with(m) == half and m.min_dist_with(b) ==
\* alpha - half, so the two distances sum to alpha.
C25_MergeSplitsSeparation ==
    (Returned("merged_min_dist_with", TypesMergeInterval) /\ OperandsValid
        /\ ~MergeObj_merge_with_panics(self, other)) =>
        LET alpha == Max(ExactGap(self.impl_.xcoord, other.impl_.xcoord),
                         ExactGap(self.impl_.ycoord, other.impl_.ycoord))
            half == alpha \div 2
        IN  /\ locals.alpha = alpha /\ locals.half = half
            /\ out[1] = half
            /\ out[2] = alpha - half
            /\ out[1] + out[2] = alpha
\* An odd separation: ([200,600],[200,600]) and ([-3,-1],[4,9]) are 201 apart.
C25_Witness ==
    /\ Returned("merged_min_dist_with", TypesMergeInterval)
    /\ self = Box(200, 600, 200, 600) /\ other = Box(-3, -1, 4, 9)
    /\ locals.alpha = 201
    /\ out = <<100, 101>>


\* C26: enlargement and distance agree: for all valid intervals A and B and
\* every radius r >= 0, without overflow, A.enlarge_with(r).overlaps(B) holds
\* iff A.min_dist_with(B) <= r.
C26_EnlargeAgreesWithDistance ==
    (Returned("enlarged_overlaps", TypesII) /\ OperandsValid /\ arg >= 0
        /\ ~Interval_enlarge_with_panics(self, arg)
        /\ ~Interval_min_dist_with_Interval_panics(self, other)) =>
        /\ out <=> (Interval_min_dist_with_Interval(self, other) <= arg)
        /\ out <=> (ExactGap(self, other) <= arg)
\* [3,5] enlarged by 2 reaches [7,8], which is 2 away.
C26_Witness ==
    /\ Returned("enlarged_overlaps", TypesII)
    /\ self = Interval_new(3, 5) /\ other = Interval_new(7, 8) /\ arg = 2
    /\ out = TRUE


\* The parts of C27 that do not depend on the order of scalar and interval in
\* min_dist_with; I is self, x is other.
C27_Parts ==
    LET I == self
        x == other
        d == Interval_new(other, other)
    IN  /\ op = "overlaps" =>
              /\ out = i32_overlaps_Interval(x, I)
              /\ out = Interval_overlaps_Interval(I, d)
        /\ op = "contains" => out = Interval_contains_Interval(I, d)
        /\ op = "min_dist_with" => out = Interval_min_dist_with_Interval(I, d)
        /\ op = "hull_with" =>
              /\ out = i32_hull_with_Interval(x, I)
              /\ out = Interval_hull_with_Interval(I, d)
        /\ op = "intersect_with" =>
              /\ out = i32_intersect_with_Interval(x, I)
              /\ out = Interval_intersect_with_Interval(I, d)

\* C27 (as stated): a scalar interoperates with an interval exactly as the
\* degenerate interval [x, x] would, for every interval I and scalar x:
\* overlaps, min_dist_with, hull_with and intersect_with agree in both operand
\* orders and with [x, x], and I.contains(x) == I.contains([x, x]).
C27_ScalarAsDegenerate_AllIntervals ==
    (tys = TypesIntervalScalar /\ ~panicked) =>
        /\ C27_Parts
        /\ op = "min_dist_with" => out = i32_min_dist_with_Interval(other, self)

\* C27 (amended): as stated for every interval I and scalar x, except that
\* x.min_dist_with(I) equals I.min_dist_with(x) and I.min_dist_with([x, x])
\* only when I is valid.
C27_ScalarAsDegenerate_Valid ==
    (tys = TypesIntervalScalar /\ ~panicked) =>
        /\ C27_Parts
        /\ (op = "min_dist_with" /\ IsValid(self)) =>
              out = i32_min_dist_with_Interval(other, self)
C27_Witness ==
    /\ Returned("min_dist_with", TypesIntervalScalar)
    /\ self = Interval_new(3, 5) /\ other = 6
    /\ out = 1
    /\ i32_min_dist_with_Interval(other, self) = 1
    /\ Interval_min_dist_with_Interval(self, Interval_new(6, 6)) = 1


C29_RadiiSurviveCast ==
    Returned("merge_with", TypesMergeInterval) =>
        /\ locals.radius1 >= 0 /\ locals.radius2 >= 0
        /\ locals.radius1 = locals.half
        /\ locals.radius2 = locals.alpha - locals.half



\* C30: merge_with depends on the operand order only through the odd remainder:
\* for all MergeObj a, b with valid interval axes, if alpha = a.min_dist_with(b)
\* is even then a.merge_with(b) == b.merge_with(a); for odd alpha the two may
\* differ, as they do for ([200,600],[200,600]) and ([-3,-1],[4,9]), 201 apart.
C30_MergeOrderOnlyOddRemainder ==
    (Returned("merge_with", TypesMergeInterval) /\ OperandsValid) =>
        /\ locals.alpha % 2 = 0 =>
              /\ MergeObj_min_dist_with("Interval", "Interval", other, self) = locals.alpha
              /\ out = MergeObj_merge_with(other, self)
        /\ (self = Box(200, 600, 200, 600) /\ other = Box(-3, -1, 4, 9)) =>
              /\ locals.alpha = 201
              /\ out = Box(100, 100, 100, 110)
              /\ MergeObj_merge_with(other, self) = Box(99, 99, 99, 109)
\* Rectangles 100 apart on both axes: both orders give ([650,650],[650,650]).
C30_Witness ==
    /\ Returned("merge_with", TypesMergeInterval)
    /\ self = Box(200, 600, 200, 600) /\ other = Box(700, 900, 700, 900)
    /\ locals.alpha = 100
    /\ out = Box(650, 650, 650, 650)
    /\ MergeObj_merge_with(other, self) = out

====
